---- MODULE Spec2Model ----
(***************************************************************************)
(* Model of src/utilities/connection.py: the Connection class, a lazily    *)
(* built process-wide psycopg2 ThreadedConnectionPool guarded by a         *)
(* threading.Semaphore, its context-manager protocol and its SQL helpers.  *)
(* Text is modelled as sequences of characters: one-character strings, and *)
(* for the characters beyond ASCII the name of their code point.           *)
(***************************************************************************)
EXTENDS Integers, Sequences, FiniteSets, TLC

(***************************************************************************)
(* Bounds of the model.                                                    *)
(***************************************************************************)
NumThreads == 2
NumRawThreads == 3
MaxCalls == 2
MaxExecCalls == 3
MaxRawCalls == 3
MaxSharedCalls == 4
MaxConnBound == 2

Threads == 1..NumThreads
ExecThreads == {1}
NoThread == 0
None == 0

(***************************************************************************)
(* Text helpers: str.upper, the `in` operator on str, str.join.            *)
(***************************************************************************)
LowerLetters == <<"a", "b", "c", "d", "e", "f", "g", "h", "i", "j", "k", "l", "m",
                  "n", "o", "p", "q", "r", "s", "t", "u", "v", "w", "x", "y", "z">>
UpperLetters == <<"A", "B", "C", "D", "E", "F", "G", "H", "I", "J", "K", "L", "M",
                  "N", "O", "P", "Q", "R", "S", "T", "U", "V", "W", "X", "Y", "Z">>

\* letters beyond ASCII
DotlessI == "U+0131"
LongS == "U+017F"
SharpS == "U+00DF"
SmallEAcute == "U+00E9"
CapitalEAcute == "U+00C9"
SmallAGrave == "U+00E0"
CapitalAGrave == "U+00C0"
LigatureFi == "U+FB01"
SmallTDiaeresis == "U+1E97"
CombiningDiaeresis == "U+0308"

\* a database server's folding of keywords: the letters a-z only
AsciiUpperChar(c) ==
    IF \E i \in 1..Len(LowerLetters) : LowerLetters[i] = c
    THEN UpperLetters[CHOOSE i \in 1..Len(LowerLetters) : LowerLetters[i] = c]
    ELSE c

AsciiUpper(s) == [i \in 1..Len(s) |-> AsciiUpperChar(s[i])]

\* c.upper() of one character, a text of one or two characters: Unicode's
\* full upper-case mapping on a-z and on the letters named above (a
\* ligature gives its letters, a letter whose marked capital does not exist
\* gives the capital and the mark), and every other character of the
\* model's texts (digits, space, punctuation, capitals) maps to itself
UpperChar(c) ==
    IF \E i \in 1..Len(LowerLetters) : LowerLetters[i] = c
    THEN <<AsciiUpperChar(c)>>
    ELSE IF c = DotlessI THEN <<"I">>
    ELSE IF c = LongS THEN <<"S">>
    ELSE IF c = SharpS THEN <<"S", "S">>
    ELSE IF c = SmallEAcute THEN <<CapitalEAcute>>
    ELSE IF c = SmallAGrave THEN <<CapitalAGrave>>
    ELSE IF c = LigatureFi THEN <<"F", "I">>
    ELSE IF c = SmallTDiaeresis THEN <<"T", CombiningDiaeresis>>
    ELSE <<c>>

RECURSIVE upper(_)
\* sql.upper()
upper(s) == IF Len(s) = 0 THEN <<>> ELSE UpperChar(Head(s)) \o upper(Tail(s))

\* keyword in text
Contains(needle, hay) ==
    \E i \in 1..(Len(hay) - Len(needle) + 1) :
        SubSeq(hay, i, i + Len(needle) - 1) = needle

RECURSIVE Join(_, _)
\* sep.join(parts)
Join(sep, parts) ==
    IF Len(parts) = 0 THEN <<>>
    ELSE IF Len(parts) = 1 THEN parts[1]
    ELSE parts[1] \o sep \o Join(sep, Tail(parts))

KwInsert == <<"I", "N", "S", "E", "R", "T">>
KwUpdate == <<"U", "P", "D", "A", "T", "E">>
KwValues == <<"V", "A", "L", "U", "E", "S">>
OnConflict == <<" ", "O", "N", " ", "C", "O", "N", "F", "L", "I", "C", "T", " ", "D", "O",
                " ", "N", "O", "T", "H", "I", "N", "G">>
CommaSpace == <<",", " ">>

\* the guard of sql_execute, with the case folding left out
any_keyword_case_sensitive(sql) ==
    \E keyword \in {KwInsert, KwUpdate} : Contains(keyword, sql)

\* any([keyword in sql.upper() for keyword in ["INSERT", "UPDATE"]])
any_keyword(sql) ==
    \E keyword \in {KwInsert, KwUpdate} : Contains(keyword, upper(sql))

(***************************************************************************)
(* repr() of the entries sql_execute_values renders.  An entry is a record *)
(* with a field t naming its Python type.                                  *)
(***************************************************************************)
DigitChars == <<"0", "1", "2", "3", "4", "5", "6", "7", "8", "9">>

RECURSIVE NatText(_)
NatText(n) ==
    IF n < 10 THEN <<DigitChars[n + 1]>>
    ELSE NatText(n \div 10) \o <<DigitChars[(n % 10) + 1]>>

\* repr(int)
IntRepr(n) == IF n < 0 THEN <<"-">> \o NatText(0 - n) ELSE NatText(n)

RECURSIVE ZeroPad(_, _)
\* "%0<width>d" % n
ZeroPad(n, width) ==
    IF Len(NatText(n)) >= width THEN NatText(n)
    ELSE <<"0">> \o ZeroPad(n, width - 1)

\* str(datetime): isoformat(sep=" "), microseconds only when non-zero
DatetimeStr(e) ==
    ZeroPad(e.year, 4) \o <<"-">> \o ZeroPad(e.month, 2) \o <<"-">> \o ZeroPad(e.day, 2)
    \o <<" ">> \o ZeroPad(e.hour, 2) \o <<":">> \o ZeroPad(e.minute, 2)
    \o <<":">> \o ZeroPad(e.second, 2)
    \o (IF e.microsecond # 0 THEN <<".">> \o ZeroPad(e.microsecond, 6) ELSE <<>>)

HasChar(s, c) == \E i \in 1..Len(s) : s[i] = c

\* repr() of one character that is not the quote: the backslash doubled,
\* newline, tab and carriage return by their letter, another control
\* character (form feed) by its hexadecimal code, a printable character as
\* it is
EscapeChar(c) ==
    IF c = "\\" THEN <<"\\", "\\">>
    ELSE IF c = "\n" THEN <<"\\", "n">>
    ELSE IF c = "\t" THEN <<"\\", "t">>
    ELSE IF c = "\r" THEN <<"\\", "r">>
    ELSE IF c = "\f" THEN <<"\\", "x", "0", "c">>
    ELSE <<c>>

RECURSIVE EscapeQuoted(_)
\* the body of repr(str) inside single quotes: the single quote escaped too
EscapeQuoted(s) ==
    IF Len(s) = 0 THEN <<>>
    ELSE (IF Head(s) = "'" THEN <<"\\", "'">> ELSE EscapeChar(Head(s)))
         \o EscapeQuoted(Tail(s))

RECURSIVE EscapeBackslash(_)
\* the body of repr(str) inside double quotes (the text holds no double quote)
EscapeBackslash(s) ==
    IF Len(s) = 0 THEN <<>>
    ELSE EscapeChar(Head(s)) \o EscapeBackslash(Tail(s))

\* repr(str): double quotes only when the text holds a single quote and no
\* double quote
StrRepr(s) ==
    IF HasChar(s, "'") /\ ~HasChar(s, "\"")
    THEN <<"\"">> \o EscapeBackslash(s) \o <<"\"">>
    ELSE <<"'">> \o EscapeQuoted(s) \o <<"'">>

NoneText == <<"N", "o", "n", "e">>

\* repr(str(entry)) if isinstance(entry, datetime) else repr(entry)
ReprEntry(entry) ==
    IF entry.t = "datetime" THEN StrRepr(DatetimeStr(entry))
    ELSE IF entry.t = "int" THEN IntRepr(entry.v)
    ELSE IF entry.t = "str" THEN StrRepr(entry.v)
    ELSE NoneText

\* f"({', '.join([... for entry in entries])})"
TupleText(entries) ==
    <<"(">> \o Join(CommaSpace, [i \in 1..Len(entries) |-> ReprEntry(entries[i])]) \o <<")">>

\* ", ".join([... for entries in value_tuples])
value_tuples_sql(value_tuples) ==
    Join(CommaSpace, [i \in 1..Len(value_tuples) |-> TupleText(value_tuples[i])])

\* the statement of sql_execute_values built without the conflict clause
values_statement_no_clause(sql, value_tuples, ignore_duplicate) ==
    sql \o <<" ">> \o value_tuples_sql(value_tuples)

\* sql += " " + value_tuples_sql + " ON CONFLICT DO NOTHING" if ignore_duplicate else ""
\* (the conditional expression binds weaker than +)
values_statement(sql, value_tuples, ignore_duplicate) ==
    sql \o (IF ignore_duplicate
            THEN <<" ">> \o value_tuples_sql(value_tuples) \o OnConflict
            ELSE <<>>)

(***************************************************************************)
(* The database behind the connections: a table of committed rows, each    *)
(* row the text of one value tuple and unique as a whole.  A statement     *)
(* with a VALUES list inserts its tuples.                                   *)
(***************************************************************************)
ValuesAt(stmt) ==
    LET u == AsciiUpper(stmt)
    IN  CHOOSE i \in 1..(Len(u) - Len(KwValues) + 1) :
            /\ SubSeq(u, i, i + Len(KwValues) - 1) = KwValues
            /\ \A j \in 1..(i - 1) : SubSeq(u, j, j + Len(KwValues) - 1) # KwValues

\* the <<first, last>> positions of the parenthesised tuples after VALUES
TupleSpans(stmt) ==
    IF ~Contains(KwValues, AsciiUpper(stmt)) THEN {}
    ELSE {sp \in (ValuesAt(stmt)..Len(stmt)) \X (ValuesAt(stmt)..Len(stmt)) :
            /\ sp[1] < sp[2]
            /\ stmt[sp[1]] = "("
            /\ stmt[sp[2]] = ")"
            /\ \A k \in (sp[1] + 1)..(sp[2] - 1) : stmt[k] \notin {"(", ")"}}

StmtRows(stmt) == {SubSeq(stmt, sp[1], sp[2]) : sp \in TupleSpans(stmt)}

HasConflictClause(stmt) ==
    /\ Len(stmt) >= Len(OnConflict)
    /\ SubSeq(AsciiUpper(stmt), Len(stmt) - Len(OnConflict) + 1, Len(stmt)) = OnConflict

\* what cursor.execute(stmt) reports against the committed rows
ExecError(stmt, rows) ==
    IF Contains(KwValues, AsciiUpper(stmt)) /\ StmtRows(stmt) = {} THEN "SyntaxError"
    ELSE IF /\ ~HasConflictClause(stmt)
            /\ \/ StmtRows(stmt) \cap rows # {}
               \/ Cardinality(TupleSpans(stmt)) > Cardinality(StmtRows(stmt))
         THEN "UniqueViolation"
    ELSE "none"

(***************************************************************************)
(* Inputs.                                                                 *)
(***************************************************************************)
\* parse(DATABASE_CONFIG_PATH, 'postgresql'): the pool-sizing fields
Configs ==
    {[minconn |-> mn, maxconn |-> mx, has_maxconn |-> TRUE] :
        mn \in {0, 1}, mx \in {-1} \cup 1..MaxConnBound}
    \cup {[minconn |-> 0, maxconn |-> 0, has_maxconn |-> FALSE]}

SqlSelect == <<"s", "e", "l", "e", "c", "t", " ", "1">>
SqlInsertLower == <<"i", "n", "s", "e", "r", "t", " ", "x">>
SqlUpdateMixed == <<"a", " ", "U", "p", "D", "a", "T", "e">>
SqlNearMiss == <<"I", "N", "S", "E", "R", " ", "U", "P", "D", "A", "T">>
SqlInsertTurkic == <<DotlessI, "n", LongS, "e", "r", "t", " ", "x">>
SqlNearMissFolded == <<"i", "n", SharpS, "e", "r", "t", " ", "u", "p", "d", SmallAGrave,
                       "t", SmallEAcute>>
SqlInsertLigature == <<LigatureFi, "n", "s", "e", "r", SmallTDiaeresis>>
SqlUpdateUpper == <<"U", "P", "D", "A", "T", "E", " ", "t">>
BaseInsert == <<"I", "N", "S", "E", "R", "T", " ", "I", "N", "T", "O", " ", "t", " ",
                "V", "A", "L", "U", "E", "S">>

ReadSqls == {SqlSelect, SqlInsertLower, SqlUpdateMixed, SqlNearMiss, SqlUpdateUpper,
             SqlInsertTurkic, SqlNearMissFolded, SqlInsertLigature}
CommitSqls == {SqlUpdateUpper, BaseInsert \o <<" ", "(", "1", ")">>}

EntryInt(n) == [t |-> "int", v |-> n]
EntryStr(x) == [t |-> "str", v |-> x]
EntryNone == [t |-> "NoneType"]
EntryDatetime == [t |-> "datetime", year |-> 2020, month |-> 1, day |-> 2,
                  hour |-> 3, minute |-> 4, second |-> 5, microsecond |-> 60]
Row1 == <<EntryInt(1), EntryStr(<<"x">>)>>
Row2 == <<EntryInt(2), EntryStr(<<"y", "\n", "\t", "\r", "\f", "\\", SmallEAcute>>)>>
Row3 == <<EntryDatetime, EntryStr(<<"o", "'">>), EntryNone, EntryInt(-12)>>
RowLists == {<<>>, <<Row1>>, <<Row1, Row2>>, <<Row3>>}

(***************************************************************************)
(* State.                                                                  *)
(***************************************************************************)
VARIABLES
    cfg,            \* the configuration section parse() yields
    lock,           \* __init__.__lock__: the thread holding it, or NoThread
    pool,           \* Connection._pool: None, or the identity of the pool object
    pool_idle,      \* the pool's idle connections (ThreadedConnectionPool._pool)
    pool_used,      \* the pool's checked-out connections (_used)
    sem,            \* Connection._sem_remaining: None, or the semaphore's identity
    sem_value,      \* the semaphore's counter
    poolsCreated,   \* pool objects constructed so far
    semsCreated,    \* semaphore objects constructed so far
    pc,             \* where each thread is in its current call
    op,             \* each thread's current call and its arguments
    self_conn,      \* self.conn of each Connection object (named by the thread
                    \* that constructed it last)
    using,          \* the Connection object each thread's call works on
    pending,        \* the exception in flight when the with block is left
    outcome,        \* how each thread's last call ended
    ret,            \* the rows the last call returned
    cur,            \* per call: what the call has done so far
    seen,           \* the <<pool, semaphore>> each thread's last Connection() saw
    started_uninit, \* whether the pool was unset when the thread's call began
    store,          \* the committed rows of the database
    calls           \* calls started so far

vars == <<cfg, lock, pool, pool_idle, pool_used, sem, sem_value, poolsCreated,
          semsCreated, pc, op, self_conn, using, pending, outcome, ret, cur, seen,
          started_uninit, store, calls>>

poolVars == <<pool, pool_idle, pool_used, poolsCreated>>
semVars == <<sem, sem_value, semsCreated>>

NoOp == [kind |-> "none", sql |-> <<>>, base |-> <<>>, rows |-> <<>>, ign |-> FALSE]
Fresh == [took |-> 0, gave |-> 0, gets |-> 0, puts |-> 0, exits |-> 0,
          execs |-> 0, commits |-> 0, wcalls |-> 0, sent |-> <<>>,
          failed |-> "none", dup |-> FALSE, before |-> {},
          trace |-> <<>>, got |-> None, conn |-> None, arg |-> None,
          rawctx |-> <<>>]

\* the state of a fresh process whose threads are T and whose configuration
\* file holds one of C
InitOver(T, C) ==
    /\ cfg \in C
    /\ lock = NoThread
    /\ pool = None
    /\ pool_idle = <<>>
    /\ pool_used = {}
    /\ sem = None
    /\ sem_value = 0
    /\ poolsCreated = 0
    /\ semsCreated = 0
    /\ pc = [t \in T |-> "idle"]
    /\ op = [t \in T |-> NoOp]
    /\ self_conn = [t \in T |-> None]
    /\ using = [t \in T |-> t]
    /\ pending = [t \in T |-> "none"]
    /\ outcome = [t \in T |-> "none"]
    /\ ret = [t \in T |-> {}]
    /\ cur = [t \in T |-> Fresh]
    /\ seen = [t \in T |-> <<None, None>>]
    /\ started_uninit = [t \in T |-> FALSE]
    /\ store = {}
    /\ calls = 0

Init == InitOver(Threads, Configs)

(***************************************************************************)
(* Calls.  A thread starts a call when idle; the calls below are the uses  *)
(* of the class its __main__ block and its static helpers show.            *)
(***************************************************************************)
\* thread t starts call o on Connection object c
BeginOn(t, o, c) ==
    /\ pc[t] = "idle"
    /\ calls' = calls + 1
    /\ op' = [op EXCEPT ![t] = o]
    /\ using' = [using EXCEPT ![t] = c]
    /\ pending' = [pending EXCEPT ![t] = "none"]
    /\ ret' = [ret EXCEPT ![t] = {}]
    /\ started_uninit' = [started_uninit EXCEPT ![t] = (pool = None)]
    /\ UNCHANGED <<cfg, lock, poolVars, semVars, self_conn, seen, store>>

\* thread t starts a call that constructs its own Connection object
Begin(t, o) == BeginOn(t, o, t)

Return(t) ==
    /\ pc' = [pc EXCEPT ![t] = "idle"]
    /\ outcome' = [outcome EXCEPT ![t] = "returned"]

Raise(t, e) ==
    /\ pc' = [pc EXCEPT ![t] = "idle"]
    /\ outcome' = [outcome EXCEPT ![t] = e]

Raised(t) == outcome[t] \notin {"none", "running", "returned"}

\* Connection(): the constructor alone
CallConstruct(t) ==
    /\ Begin(t, [NoOp EXCEPT !.kind = "construct"])
    /\ cur' = [cur EXCEPT ![t] = Fresh]
    /\ pc' = [pc EXCEPT ![t] = "init"]
    /\ outcome' = [outcome EXCEPT ![t] = "running"]

\* with Connection() as conn: <body>
CallWith(t) ==
    /\ Begin(t, [NoOp EXCEPT !.kind = "with"])
    /\ cur' = [cur EXCEPT ![t] = Fresh]
    /\ pc' = [pc EXCEPT ![t] = "init"]
    /\ outcome' = [outcome EXCEPT ![t] = "running"]

\* with c as conn: <body>, on the Connection object c that a Connection()
\* of thread o returned before; c has no user while its constructor runs
\* again
CallEnter(t, o) ==
    /\ seen[o][1] # None
    /\ pc[o] \notin {"init", "init_test", "init_pool", "init_sem"}
    /\ BeginOn(t, [NoOp EXCEPT !.kind = "enter"], o)
    /\ cur' = [cur EXCEPT ![t] = Fresh]
    /\ pc' = [pc EXCEPT ![t] = "enter"]
    /\ outcome' = [outcome EXCEPT ![t] = "running"]

\* raw_conn = Connection()(): construct, then call the object
CallRaw(t) ==
    /\ Begin(t, [NoOp EXCEPT !.kind = "raw"])
    /\ cur' = [cur EXCEPT ![t] = Fresh]
    /\ pc' = [pc EXCEPT ![t] = "init"]
    /\ outcome' = [outcome EXCEPT ![t] = "running"]

\* Connection.sql_execute(sql), up to the with statement
sql_execute(t, sql) ==
    /\ Begin(t, [NoOp EXCEPT !.kind = "read", !.sql = sql])
    /\ cur' = [cur EXCEPT ![t] = Fresh]
    /\ IF any_keyword(sql)
       THEN Return(t)
       ELSE /\ pc' = [pc EXCEPT ![t] = "init"]
            /\ outcome' = [outcome EXCEPT ![t] = "running"]

\* Connection.sql_execute_commit(sql), up to the with statement
sql_execute_commit(t, sql) ==
    /\ Begin(t, [NoOp EXCEPT !.kind = "commit", !.sql = sql])
    /\ cur' = [cur EXCEPT ![t] = [Fresh EXCEPT !.wcalls = 1]]
    /\ pc' = [pc EXCEPT ![t] = "init"]
    /\ outcome' = [outcome EXCEPT ![t] = "running"]

\* a test of the tuples' text that lets the empty text through
has_values_unchecked(text) == TRUE

\* if value_tuples_sql: the text is not empty
has_values(text) == text # <<>>

\* Connection.sql_execute_values(sql, value_tuples, ignore_duplicate), up to
\* the with statement of the sql_execute_commit it calls
sql_execute_values(t, sql, value_tuples, ignore_duplicate) ==
    /\ IF has_values(value_tuples_sql(value_tuples))
       THEN /\ Begin(t, [kind |-> "values",
                         sql |-> values_statement(sql, value_tuples, ignore_duplicate),
                         base |-> sql, rows |-> value_tuples, ign |-> ignore_duplicate])
            /\ cur' = [cur EXCEPT ![t] = [Fresh EXCEPT !.wcalls = 1]]
            /\ pc' = [pc EXCEPT ![t] = "init"]
            /\ outcome' = [outcome EXCEPT ![t] = "running"]
       ELSE /\ Begin(t, [kind |-> "values", sql |-> sql, base |-> sql,
                         rows |-> value_tuples, ign |-> ignore_duplicate])
            /\ cur' = [cur EXCEPT ![t] = Fresh]
            /\ Return(t)

(***************************************************************************)
(* Connection.__init__ under synchronized.                                 *)
(***************************************************************************)
\* with func.__lock__: the lock can be taken
lock_free_unsynchronized(l) == TRUE

lock_free(l) == l = NoThread

\* a Connection()() that leases through __enter__ like a with statement
after_init_pooled(kind) == "enter"

\* what a call does with its Connection object: Connection()() calls it,
\* a with statement enters it
after_init(kind) == IF kind = "raw" THEN "raw" ELSE "enter"

\* where a call goes on once its Connection() has returned
AfterInit(t, p, s) ==
    /\ seen' = [seen EXCEPT ![t] = <<p, s>>]
    /\ IF op[t].kind = "construct"
       THEN Return(t)
       ELSE /\ pc' = [pc EXCEPT ![t] = after_init(op[t].kind)]
            /\ UNCHANGED outcome

\* lock_func: with func.__lock__ takes the lock, in every Connection()
InitBegin(t) ==
    /\ pc[t] = "init"
    /\ lock_free(lock)
    /\ lock' = t
    /\ pc' = [pc EXCEPT ![t] = "init_test"]
    /\ UNCHANGED <<cfg, poolVars, semVars, op, self_conn, using, pending, outcome,
                   ret, cur, seen, started_uninit, store, calls>>

\* __init__ sets self.conn and tests Connection._pool; with the pool set it
\* returns and lock_func releases the lock
InitTest(t) ==
    /\ pc[t] = "init_test"
    /\ self_conn' = [self_conn EXCEPT ![t] = None]
    /\ IF pool = None
       THEN /\ pc' = [pc EXCEPT ![t] = "init_pool"]
            /\ UNCHANGED <<lock, outcome, seen>>
       ELSE /\ lock' = NoThread
            /\ AfterInit(t, pool, sem)
    /\ UNCHANGED <<cfg, poolVars, semVars, op, using, pending, ret, cur,
                   started_uninit, store, calls>>

\* Connection._pool = ThreadedConnectionPool(**self.config()); the pool opens
\* minconn connections, and an exception leaves the with block of lock_func
InitPool(t) ==
    /\ pc[t] = "init_pool"
    /\ \E ok \in BOOLEAN :
        IF ok /\ cfg.has_maxconn
        THEN /\ pool' = poolsCreated + 1
             /\ poolsCreated' = poolsCreated + 1
             /\ pool_idle' = [i \in 1..cfg.minconn |-> i]
             /\ pool_used' = {}
             /\ pc' = [pc EXCEPT ![t] = "init_sem"]
             /\ UNCHANGED <<lock, outcome>>
        ELSE /\ lock' = NoThread
             /\ Raise(t, "InitError")
             /\ UNCHANGED poolVars
    /\ UNCHANGED <<cfg, semVars, op, self_conn, using, pending, ret, cur, seen,
                   started_uninit, store, calls>>

\* int(self.config().get('maxconn', 4))
SemInitial(c) == IF c.has_maxconn THEN c.maxconn ELSE 4

\* Connection._sem_remaining = threading.Semaphore(...), which refuses a
\* negative value; then lock_func releases the lock
InitSem(t) ==
    /\ pc[t] = "init_sem"
    /\ lock' = NoThread
    /\ IF SemInitial(cfg) >= 0
       THEN /\ sem' = semsCreated + 1
            /\ semsCreated' = semsCreated + 1
            /\ sem_value' = SemInitial(cfg)
            /\ AfterInit(t, pool, semsCreated + 1)
       ELSE /\ Raise(t, "InitError")
            /\ UNCHANGED <<semVars, seen>>
    /\ UNCHANGED <<cfg, poolVars, op, self_conn, using, pending, ret, cur,
                   started_uninit, store, calls>>

(***************************************************************************)
(* Connection.__enter__ and Connection.__exit__.                           *)
(***************************************************************************)
\* an acquire that never waits
acquire_ready_unguarded(v) == TRUE

\* Semaphore.acquire(blocking=True) returns once the counter is positive
acquire_ready(v) == v > 0

\* an acquire that takes no permit
acquire_value_kept(v) == v

\* Semaphore.acquire(): the counter after the call
acquire_value(v) == v - 1

\* Connection._sem_remaining.acquire(blocking=True)
EnterAcquire(t) ==
    /\ pc[t] = "enter"
    /\ IF sem = None
       THEN /\ Raise(t, "AttributeError")
            /\ UNCHANGED <<sem_value, cur>>
       ELSE /\ acquire_ready(sem_value)
            /\ sem_value' = acquire_value(sem_value)
            /\ cur' = [cur EXCEPT ![t].took = @ + 1,
                                  ![t].trace = Append(@, "acquire")]
            /\ pc' = [pc EXCEPT ![t] = "getconn"]
            /\ UNCHANGED outcome
    /\ UNCHANGED <<cfg, lock, poolVars, sem, semsCreated, op, self_conn, using, pending,
                   ret, seen, started_uninit, store, calls>>

\* a connection the pool does not hold yet
NewConn == CHOOSE c \in 1..(Cardinality(pool_used) + Len(pool_idle) + 1) :
               /\ c \notin pool_used
               /\ \A i \in 1..Len(pool_idle) : pool_idle[i] # c
               /\ \A d \in 1..(c - 1) :
                      d \in pool_used \/ \E i \in 1..Len(pool_idle) : pool_idle[i] = d

\* Connection._pool.getconn(), the call on the right of line 38: an idle
\* connection, or a new one unless maxconn are checked out; opening a
\* connection can fail.  An exception leaves __enter__, so the with
\* statement never calls __exit__.
EnterGetconn(t) ==
    /\ pc[t] = "getconn"
    /\ \E ok \in BOOLEAN :
        IF Len(pool_idle) > 0
        THEN /\ ok
             /\ pool_used' = pool_used \cup {pool_idle[Len(pool_idle)]}
             /\ pool_idle' = SubSeq(pool_idle, 1, Len(pool_idle) - 1)
             /\ cur' = [cur EXCEPT ![t].gets = @ + 1,
                                   ![t].got = pool_idle[Len(pool_idle)],
                                   ![t].trace = Append(@, "getconn")]
             /\ pc' = [pc EXCEPT ![t] = "setconn"]
             /\ UNCHANGED outcome
        ELSE IF Cardinality(pool_used) = cfg.maxconn
        THEN /\ ok
             /\ Raise(t, "PoolError")
             /\ UNCHANGED <<pool_used, pool_idle, cur>>
        ELSE IF ok
        THEN /\ pool_used' = pool_used \cup {NewConn}
             /\ cur' = [cur EXCEPT ![t].gets = @ + 1, ![t].got = NewConn,
                                   ![t].trace = Append(@, "getconn")]
             /\ pc' = [pc EXCEPT ![t] = "setconn"]
             /\ UNCHANGED <<pool_idle, outcome>>
        ELSE /\ Raise(t, "OperationalError")
             /\ UNCHANGED <<pool_used, pool_idle, cur>>
    /\ UNCHANGED <<cfg, lock, pool, poolsCreated, semVars, op, self_conn, using,
                   pending, ret, seen, started_uninit, store, calls>>

\* self.conn = <the connection getconn returned>, the store of line 38
EnterStore(t) ==
    /\ pc[t] = "setconn"
    /\ self_conn' = [self_conn EXCEPT ![using[t]] = cur[t].got]
    /\ pc' = [pc EXCEPT ![t] = "enter_return"]
    /\ UNCHANGED <<cfg, lock, poolVars, semVars, op, using, pending, outcome, ret,
                   cur, seen, started_uninit, store, calls>>

\* return self.conn: the with statement binds what self.conn holds now
EnterReturn(t) ==
    /\ pc[t] = "enter_return"
    /\ cur' = [cur EXCEPT ![t].conn = self_conn[using[t]]]
    /\ pc' = [pc EXCEPT ![t] = "body"]
    /\ UNCHANGED <<cfg, lock, poolVars, semVars, op, self_conn, using, pending,
                   outcome, ret, seen, started_uninit, store, calls>>

\* the calls whose with block has a caller's body
WithKinds == {"with", "enter"}

\* the body of a caller's with block: it completes, returns early or raises
Body(t) ==
    /\ pc[t] = "body"
    /\ op[t].kind \in WithKinds
    /\ \E how \in {"normal", "return", "raise"} :
        /\ cur' = [cur EXCEPT ![t].failed = IF how = "raise" THEN "body" ELSE "none",
                              ![t].trace = Append(@, "body")]
        /\ pending' = [pending EXCEPT ![t] = IF how = "raise" THEN "BodyError" ELSE "none"]
    /\ pc' = [pc EXCEPT ![t] = "exit"]
    /\ UNCHANGED <<cfg, lock, poolVars, semVars, op, self_conn, using, outcome, ret, seen,
                   started_uninit, store, calls>>

\* the driver errors an execute or a commit can meet whatever the statement
DriverOutcomes == {"none", "OperationalError"}

\* cursor.execute(sql); rows = cursor.fetchall(); cursor.close(); return iter(rows)
ReadBody(t) ==
    /\ pc[t] = "body"
    /\ op[t].kind = "read"
    /\ \E drv \in DriverOutcomes :
        LET err == IF ExecError(op[t].sql, store) # "none"
                   THEN ExecError(op[t].sql, store) ELSE drv
        IN  /\ cur' = [cur EXCEPT ![t].execs = @ + 1, ![t].sent = op[t].sql,
                                  ![t].failed = IF err = "none" THEN "none" ELSE "execute",
                                  ![t].trace = IF err = "none"
                                               THEN @ \o <<"execute", "fetchall">>
                                               ELSE Append(@, "execute")]
            /\ pending' = [pending EXCEPT ![t] = err]
            /\ ret' = [ret EXCEPT ![t] = IF err = "none" THEN store ELSE {}]
    /\ pc' = [pc EXCEPT ![t] = "exit"]
    /\ UNCHANGED <<cfg, lock, poolVars, semVars, op, self_conn, using, outcome, seen,
                   started_uninit, store, calls>>

\* cursor.execute(sql) of sql_execute_commit
WriteExecute(t) ==
    /\ pc[t] = "body"
    /\ op[t].kind \in {"commit", "values"}
    /\ \E drv \in DriverOutcomes :
        LET err == IF ExecError(op[t].sql, store) # "none"
                   THEN ExecError(op[t].sql, store) ELSE drv
        IN  /\ cur' = [cur EXCEPT ![t].execs = @ + 1, ![t].sent = op[t].sql,
                                  ![t].failed = IF err = "none" THEN "none" ELSE "execute",
                                  ![t].dup = /\ StmtRows(op[t].sql) # {}
                                             /\ StmtRows(op[t].sql) \subseteq store,
                                  ![t].before = store,
                                  ![t].trace = Append(@, "execute")]
            /\ pending' = [pending EXCEPT ![t] = err]
            /\ pc' = [pc EXCEPT ![t] = IF err = "none" THEN "commit" ELSE "exit"]
    /\ UNCHANGED <<cfg, lock, poolVars, semVars, op, self_conn, using, outcome, ret, seen,
                   started_uninit, store, calls>>

\* connection.commit(); cursor.close()
WriteCommit(t) ==
    /\ pc[t] = "commit"
    /\ \E drv \in DriverOutcomes :
        LET err == IF ExecError(op[t].sql, store) = "UniqueViolation"
                   THEN "UniqueViolation" ELSE drv
        IN  /\ cur' = [cur EXCEPT ![t].commits = @ + 1,
                                  ![t].failed = IF err = "none" THEN "none" ELSE "commit",
                                  ![t].trace = Append(@, "commit")]
            /\ pending' = [pending EXCEPT ![t] = err]
            /\ store' = IF err = "none" THEN store \cup StmtRows(op[t].sql) ELSE store
    /\ pc' = [pc EXCEPT ![t] = "exit"]
    /\ UNCHANGED <<cfg, lock, poolVars, semVars, op, self_conn, using, outcome, ret, seen,
                   started_uninit, calls>>

\* __exit__ evaluates self.conn, the argument of line 44's call
ExitArgument(t) ==
    /\ pc[t] = "exit"
    /\ cur' = [cur EXCEPT ![t].arg = self_conn[using[t]]]
    /\ pc' = [pc EXCEPT ![t] = "putconn"]
    /\ UNCHANGED <<cfg, lock, poolVars, semVars, op, self_conn, using, pending,
                   outcome, ret, seen, started_uninit, store, calls>>

\* Connection._pool.putconn(<argument>): the pool keeps the connection idle
\* while it holds fewer than minconn and the connection is still open, else
\* closes or drops it; putconn can raise (the rollback of an open
\* transaction fails, the connection is not one the pool has handed out),
\* and the exception leaves __exit__ at once
ExitPutconn(t) ==
    /\ pc[t] = "putconn"
    /\ \E ok, open \in BOOLEAN :
        IF ok /\ cur[t].arg \in pool_used
        THEN /\ pool_used' = pool_used \ {cur[t].arg}
             /\ pool_idle' = IF Len(pool_idle) < cfg.minconn /\ open
                             THEN Append(pool_idle, cur[t].arg) ELSE pool_idle
             /\ cur' = [cur EXCEPT ![t].puts = @ + 1,
                                   ![t].trace = Append(@, "putconn")]
             /\ pc' = [pc EXCEPT ![t] = "release"]
             /\ UNCHANGED outcome
        ELSE /\ Raise(t, "PutconnError")
             /\ cur' = [cur EXCEPT ![t].exits = @ + 1]
             /\ UNCHANGED <<pool_used, pool_idle>>
    /\ UNCHANGED <<cfg, lock, pool, poolsCreated, semVars, op, self_conn, using, pending,
                   ret, seen, started_uninit, store, calls>>

\* a release that gives two permits back
release_value_twice(v) == v + 2

\* Semaphore.release(): the counter after the call
release_value(v) == v + 1

\* Connection._sem_remaining.release(); __exit__ returns None, so an
\* exception of the body goes on to the caller
ExitRelease(t) ==
    /\ pc[t] = "release"
    /\ sem_value' = release_value(sem_value)
    /\ cur' = [cur EXCEPT ![t].gave = @ + 1, ![t].exits = @ + 1,
                          ![t].trace = Append(@, "release")]
    /\ IF pending[t] = "none" THEN Return(t) ELSE Raise(t, pending[t])
    /\ UNCHANGED <<cfg, lock, poolVars, sem, semsCreated, op, self_conn, using, pending,
                   ret, seen, started_uninit, store, calls>>

\* Connection.__call__: psycopg2.connect(...) with the configuration less
\* minconn and maxconn; the connection is the caller's, and opening it can
\* fail.  rawctx notes the permits left and the threads waiting in acquire.
RawConnect(t) ==
    /\ pc[t] = "raw"
    /\ \E ok \in BOOLEAN :
        IF ok
        THEN /\ cur' = [cur EXCEPT ![t].rawctx =
                            <<sem_value,
                              Cardinality({u \in DOMAIN pc :
                                              pc[u] = "enter" /\ sem # None})>>,
                                   ![t].trace = Append(@, "connect")]
             /\ Return(t)
        ELSE /\ Raise(t, "OperationalError")
             /\ UNCHANGED cur
    /\ UNCHANGED <<cfg, lock, poolVars, semVars, op, self_conn, using, pending, ret,
                   seen, started_uninit, store, calls>>

\* the steps of a call under way
Step(t) ==
    \/ InitBegin(t)
    \/ InitTest(t)
    \/ InitPool(t)
    \/ InitSem(t)
    \/ EnterAcquire(t)
    \/ EnterGetconn(t)
    \/ EnterStore(t)
    \/ EnterReturn(t)
    \/ ExitArgument(t)
    \/ ExitPutconn(t)
    \/ ExitRelease(t)

\* threads that construct Connection objects and lease connections with them
Next ==
    \/ \E t \in Threads : calls < MaxCalls /\ CallConstruct(t)
    \/ \E t \in Threads : calls < MaxCalls /\ CallWith(t)
    \/ \E t \in Threads : Body(t)
    \/ \E t \in Threads : Step(t)

Spec == Init /\ [][Next]_vars

\* Spec with threads that keep running: every step of a call under way is
\* taken in the end, bodies of with blocks terminate, and the semaphore is
\* fair to a thread whose acquire can succeed again and again
FairSpec ==
    /\ Spec
    /\ \A t \in Threads :
           /\ WF_vars(Body(t))
           /\ WF_vars(InitBegin(t) \/ InitTest(t) \/ InitPool(t) \/ InitSem(t))
           /\ SF_vars(EnterAcquire(t))
           /\ WF_vars(EnterGetconn(t) \/ EnterStore(t) \/ EnterReturn(t)
                      \/ ExitArgument(t) \/ ExitPutconn(t) \/ ExitRelease(t))

\* threads that call the SQL helpers
ExecNext ==
    \/ \E t \in ExecThreads, sql \in ReadSqls :
           calls < MaxExecCalls /\ sql_execute(t, sql)
    \/ \E t \in ExecThreads, sql \in CommitSqls :
           calls < MaxExecCalls /\ sql_execute_commit(t, sql)
    \/ \E t \in ExecThreads, value_tuples \in RowLists, ignore_duplicate \in BOOLEAN :
           calls < MaxExecCalls
           /\ sql_execute_values(t, BaseInsert, value_tuples, ignore_duplicate)
    \/ \E t \in ExecThreads : ReadBody(t)
    \/ \E t \in ExecThreads : WriteExecute(t)
    \/ \E t \in ExecThreads : WriteCommit(t)
    \/ \E t \in ExecThreads : Step(t)

SpecExec == Init /\ [][ExecNext]_vars

\* the Connection objects some thread is inside a with block of
InUse == {using[u] : u \in {v \in DOMAIN pc : pc[v] # "idle"}}

\* threads that construct Connection objects and enter them, their own or
\* another thread's, any number of times; an object is constructed anew only
\* while no with block is using it
SharedNext ==
    \/ \E t \in Threads :
           calls < MaxSharedCalls /\ t \notin InUse /\ CallConstruct(t)
    \/ \E t, o \in Threads : calls < MaxSharedCalls /\ CallEnter(t, o)
    \/ \E t \in Threads : Body(t)
    \/ \E t \in Threads : Step(t)

SpecShared == Init /\ [][SharedNext]_vars

\* a thread that opens raw connections beside threads that lease connections
RawThreads == 1..NumRawThreads
RawCallers == {1}
LeaseCallers == RawThreads \ RawCallers

RawNext ==
    \/ \E t \in LeaseCallers : calls < MaxRawCalls /\ CallWith(t)
    \/ \E t \in RawCallers : calls < MaxRawCalls /\ CallRaw(t)
    \/ \E t \in RawThreads : Body(t)
    \/ \E t \in RawThreads : RawConnect(t)
    \/ \E t \in RawThreads : Step(t)

\* the pools of SpecRaw: one lease takes every permit
RawConfigs == {c \in Configs : c.maxconn < 2}

SpecRaw == InitOver(RawThreads, RawConfigs) /\ [][RawNext]_vars

(***************************************************************************)
(* Properties.                                                             *)
(***************************************************************************)
\* the threads whose __enter__ has returned and whose __exit__ has not
\* given the permit back yet
Leases == {t \in Threads : pc[t] \in {"body", "commit", "exit", "putconn", "release"}}

\* the threads between the semaphore's acquire and its release
Holders == {t \in Threads : pc[t] \in {"getconn", "setconn", "enter_return", "body",
                                       "commit", "exit", "putconn", "release"}}

\* C1: in every reachable state the outstanding leases and the semaphore's
\* available permits are each at most the configured maxconn (and there is
\* no lease at all while no semaphore is installed).
C1_LeasesWithinMaxconn ==
    /\ sem # None =>
        /\ sem_value <= cfg.maxconn
        /\ Cardinality(Leases) <= cfg.maxconn
        /\ Cardinality(Leases) + sem_value <= cfg.maxconn
    /\ sem = None => Leases = {}

\* a lease takes the last permit while another thread waits in acquire
C1_Witness ==
    \E t, u \in Threads :
        /\ pc[t] = "body" /\ pc[u] = "enter"
        /\ sem # None /\ sem_value = 0
        /\ Cardinality(Leases) = cfg.maxconn

\* C2 (as claimed): once a scope whose acquire returned has ended, __exit__
\* has run exactly once and the thread has given back every permit it took.
C2_ReleasedOnEveryExitPath ==
    \A t \in Threads :
        (pc[t] = "idle" /\ cur[t].gets = 1) =>
            (cur[t].exits = 1 /\ cur[t].gave = cur[t].took)

\* C3: the pool and the semaphore are each constructed at most once, the
\* installed handles are those single objects, and all threads whose
\* Connection() has returned saw the same pool and the same semaphore.
C3_SingletonUnderConcurrentConstruction ==
    /\ poolsCreated <= 1
    /\ semsCreated <= 1
    /\ pool # None => (pool = 1 /\ poolsCreated = 1)
    /\ sem # None => (sem = 1 /\ semsCreated = 1 /\ pool # None)
    /\ \A t, u \in Threads :
           (seen[t][1] # None /\ seen[u][1] # None) => seen[t] = seen[u]

\* two threads began Connection() while the pool was unset and both
\* returned with the one pool and the one semaphore
C3_Witness ==
    \E t, u \in Threads :
        /\ t # u
        /\ started_uninit[t] /\ started_uninit[u]
        /\ seen[t] = <<1, 1>> /\ seen[u] = <<1, 1>>

\* C4 (as claimed): with fewer than maxconn permits held an acquire can
\* proceed, and with maxconn leases outstanding no permit is available.
C4_AcquireBlocksOnlyAtCapacity ==
    sem # None =>
        /\ Cardinality(Holders) < cfg.maxconn => acquire_ready(sem_value)
        /\ Cardinality(Leases) = cfg.maxconn => ~acquire_ready(sem_value)

\* C5 (as claimed): every __exit__ that has run has put its connection
\* back and has given one permit back.
C5_ExitAlwaysPutsAndReleases ==
    \A t \in Threads :
        cur[t].exits = 1 => (cur[t].puts = 1 /\ cur[t].gave = 1)

\* C6 (as claimed): a step that makes Connection.__init__ fail leaves no
\* pool and no semaphore installed and the initialization lock free.
C6_FailedInitInstallsNothing ==
    [][\A t \in Threads :
          (pc[t] \in {"init_pool", "init_sem"} /\ outcome'[t] = "InitError") =>
              (pool' = None /\ sem' = None /\ lock' = NoThread)]_vars

\* C7 (as claimed): when the execute or the commit of sql_execute_commit
\* raised, the call ends with the connection put back, the permit given
\* back and that error raised to the caller, and no commit follows an
\* execute that raised.
C7_WriteErrorReleasesThenPropagates ==
    \A t \in ExecThreads :
        (/\ pc[t] = "idle"
         /\ op[t].kind \in {"commit", "values"}
         /\ cur[t].failed \in {"execute", "commit"}) =>
            /\ cur[t].puts = 1
            /\ cur[t].gave = 1
            /\ outcome[t] = pending[t]
            /\ cur[t].failed = "execute" => cur[t].commits = 0

\* a and b are one letter in two cases; the capitals I and S each have a
\* second small form, the dotless i and the long s
SameLetter(a, b) ==
    \/ a = b
    \/ \E i \in 1..Len(LowerLetters) :
           {a, b} = {LowerLetters[i], UpperLetters[i]}
    \/ {a, b} = {DotlessI, "I"}
    \/ {a, b} = {LongS, "S"}

\* the text holds the keyword, letter by letter, in any letter case
HoldsAnyCase(keyword, text) ==
    \E i \in 1..(Len(text) - Len(keyword) + 1) :
        \A k \in 1..Len(keyword) : SameLetter(text[i + k - 1], keyword[k])

MentionsMutation(text) ==
    HoldsAnyCase(KwInsert, text) \/ HoldsAnyCase(KwUpdate, text)

\* the keyword stands in the text once every character is written in
\* capitals: letter by letter in any case, its first letter possibly the
\* end of a ligature's capital form (fi gives FI), its last letter possibly
\* the capital of a marked letter that has none of its own (t with
\* diaeresis gives T and the mark)
HoldsCapitalised(keyword, text) ==
    \E i \in 1..(Len(text) - Len(keyword) + 1) :
        \A k \in 1..Len(keyword) :
            \/ SameLetter(text[i + k - 1], keyword[k])
            \/ k = 1 /\ text[i] = LigatureFi /\ keyword[1] = "I"
            \/ /\ k = Len(keyword)
               /\ text[i + k - 1] = SmallTDiaeresis /\ keyword[k] = "T"

MentionsMutationCapitalised(text) ==
    HoldsCapitalised(KwInsert, text) \/ HoldsCapitalised(KwUpdate, text)

\* what C8 says of sql_execute, Refused telling the texts it refuses
ReadGuardOver(Refused(_)) ==
    \A t \in ExecThreads :
        op[t].kind = "read" =>
            IF Refused(op[t].sql)
            THEN /\ pc[t] = "idle"
                 /\ outcome[t] = "returned"
                 /\ ret[t] = {}
                 /\ cur[t].took = 0 /\ cur[t].gets = 0 /\ cur[t].puts = 0
                 /\ cur[t].execs = 0 /\ cur[t].commits = 0 /\ cur[t].sent = <<>>
                 /\ calls = 1 => (pool = None /\ sem = None /\ poolsCreated = 0)
            ELSE (pc[t] = "idle" /\ outcome[t] = "returned") =>
                 /\ cur[t].execs = 1 /\ cur[t].sent = op[t].sql
                 /\ cur[t].commits = 0
                 /\ ret[t] = store

\* C8 (as claimed): sql_execute on a text holding INSERT or UPDATE in any
\* letter case returns at once with no rows, having taken no permit,
\* touched no pool and sent no statement; on any other text a call that
\* returns has sent exactly that text once, never committed, and returns
\* the rows.
C8_ReadGuardAnyCase == ReadGuardOver(MentionsMutation)

\* C8 (amended): sql_execute on a text whose form in capitals holds INSERT
\* or UPDATE returns at once with no rows, having taken no permit, touched
\* no pool and sent no statement; on any other text a call that returns
\* has sent exactly that text once, never committed, and returns the rows.
C8_ReadGuard == ReadGuardOver(MentionsMutationCapitalised)

\* a text that holds INSERT only once the ligature fi and the t with
\* diaeresis are written in capitals was refused after an earlier read had
\* been executed
C8_Witness ==
    \E t \in ExecThreads :
        /\ op[t].kind = "read" /\ op[t].sql = SqlInsertLigature
        /\ pc[t] = "idle" /\ outcome[t] = "returned"
        /\ cur[t].took = 0 /\ cur[t].execs = 0
        /\ calls = 2 /\ sem # None /\ sem_value = cfg.maxconn

\* C9 (as claimed): for non-empty rows the statement handed to
\* sql_execute_commit is the base text, a space, and the rendered tuples in
\* order, followed by the conflict clause exactly when ignore_duplicate.
C9_StatementHoldsAllTuples ==
    \A t \in ExecThreads :
        (op[t].kind = "values" /\ op[t].rows # <<>>) =>
            op[t].sql = op[t].base \o <<" ">> \o value_tuples_sql(op[t].rows)
                        \o (IF op[t].ign THEN OnConflict ELSE <<>>)

\* C10: sql_execute_values with non-empty rows and ignore_duplicate makes
\* one sql_execute_commit call with at most one lease, execute and commit
\* (exactly one of each when it returns); its statement holds one tuple per
\* row and ends with the conflict clause; and run when its rows are all
\* stored already, it raises no duplicate-key error and leaves the stored
\* rows as they were.
C10_BulkInsertOnceAndIdempotent ==
    \A t \in ExecThreads :
        (op[t].kind = "values" /\ op[t].rows # <<>> /\ op[t].ign) =>
            /\ cur[t].wcalls = 1
            /\ cur[t].took <= 1 /\ cur[t].execs <= 1 /\ cur[t].commits <= 1
            /\ Cardinality(TupleSpans(op[t].sql)) = Len(op[t].rows)
            /\ HasConflictClause(op[t].sql)
            /\ cur[t].execs = 1 => cur[t].sent = op[t].sql
            /\ (pc[t] = "idle" /\ outcome[t] = "returned") =>
                   /\ cur[t].took = 1 /\ cur[t].gave = 1
                   /\ cur[t].execs = 1 /\ cur[t].commits = 1
                   /\ StmtRows(op[t].sql) \subseteq store
            /\ cur[t].dup =>
                   /\ pending[t] # "UniqueViolation"
                   /\ outcome[t] # "UniqueViolation"
                   /\ store = cur[t].before

\* the two-row bulk insert returned from a run that found both rows stored
C10_Witness ==
    \E t \in ExecThreads :
        /\ op[t].kind = "values" /\ op[t].ign /\ Len(op[t].rows) = 2
        /\ cur[t].dup /\ cur[t].commits = 1
        /\ pc[t] = "idle" /\ outcome[t] = "returned"

\* C11: a sql_execute_values call with an empty row list, whatever
\* ignore_duplicate is, returns in the step that starts it: it takes no lease,
\* executes and commits nothing, and leaves the lock, the pool, the semaphore
\* with its permit count, every self.conn and the stored rows as they were.
C11_EmptyRowsNoDatabaseCall ==
    [][\A t \in ExecThreads :
          (pc[t] = "idle" /\ calls' = calls + 1
           /\ op'[t].kind = "values" /\ op'[t].rows = <<>>) =>
              /\ pc'[t] = "idle" /\ outcome'[t] = "returned"
              /\ cur'[t] = Fresh
              /\ ret'[t] = {}
              /\ UNCHANGED <<lock, poolVars, semVars, self_conn, store>>]_vars

\* an empty bulk insert without the conflict clause has returned in a process
\* whose pool is installed and whose database holds rows
C11_Witness ==
    \E t \in ExecThreads :
        /\ op[t].kind = "values" /\ op[t].rows = <<>> /\ ~op[t].ign
        /\ pc[t] = "idle" /\ outcome[t] = "returned"
        /\ cur[t].took = 0 /\ cur[t].execs = 0 /\ cur[t].commits = 0
        /\ pool # None /\ sem # None /\ store # {}

\* the threads of SpecRaw that hold a lease
RawLeases ==
    {t \in RawThreads : pc[t] \in {"body", "commit", "exit", "putconn", "release"}}

\* the steps a raw-connection call takes once its Connection() has returned
RawCallStep(t) == op[t].kind = "raw" /\ pc[t] = "raw" /\ pc'[t] # "raw"

\* C12: Connection()() never waits on the semaphore and never touches it:
\* a thread at __call__ can always go on, whatever the permit count and
\* whoever waits in acquire; the call never enters __enter__ or __exit__;
\* and its step leaves the permit count and the outstanding leases as they
\* were.
C12_RawNeverWaitsOnSemaphore ==
    /\ [](\A t \in RawThreads :
            op[t].kind = "raw" =>
                /\ pc[t] \in {"idle", "init", "init_test", "init_pool", "init_sem", "raw"}
                /\ cur[t].took = 0 /\ cur[t].gave = 0
                /\ cur[t].gets = 0 /\ cur[t].puts = 0
                /\ pc[t] = "raw" => ENABLED RawConnect(t))
    /\ [][\A t \in RawThreads :
              RawCallStep(t) =>
                  /\ UNCHANGED <<semVars, poolVars>>
                  /\ RawLeases' = RawLeases]_vars

\* a raw connection was opened while no permit was left and a thread waited
\* in acquire, and the lease holder and the waiting thread are still there
C12_Witness ==
    \E r, h, b \in RawThreads :
        /\ op[r].kind = "raw" /\ pc[r] = "idle" /\ outcome[r] = "returned"
        /\ cur[r].rawctx = <<0, 1>>
        /\ pc[h] = "body"
        /\ pc[b] = "enter" /\ sem # None /\ sem_value = 0

\* C13 (as claimed): no step of a Connection()() call, from any state,
\* installs or changes the pool handle or the semaphore, or constructs a
\* pool.
C13_RawLeavesSingletonAlone ==
    [][\A t \in RawThreads :
          (op[t].kind = "raw" /\ pc'[t] # pc[t]) =>
              UNCHANGED <<pool, sem, poolsCreated, semsCreated>>]_vars

\* the state of the pool singleton: a thread is inside the branch of
\* __init__ that builds the pool and the semaphore, or nothing is
\* installed, or pool and semaphore both are, or the pool alone is
PoolState ==
    IF \E t \in DOMAIN pc : pc[t] \in {"init_pool", "init_sem"} THEN "Initializing"
    ELSE IF pool = None THEN "Uninitialized"
    ELSE IF sem # None THEN "Ready"
    ELSE "PoolOnly"

\* C14 (as claimed): the singleton is always Uninitialized, Initializing or
\* Ready; it leaves Uninitialized only for Initializing and Initializing only
\* for Ready (or back to Uninitialized when the initialization fails and
\* installs nothing); at most one thread is initializing; and once Ready it
\* stays Ready with the same pool handle and the same semaphore.
C14_SingletonStateMachine ==
    [][/\ PoolState' \in {"Uninitialized", "Initializing", "Ready"}
       /\ PoolState = "Uninitialized" => PoolState' \in {"Uninitialized", "Initializing"}
       /\ PoolState = "Initializing" =>
              PoolState' \in {"Initializing", "Ready", "Uninitialized"}
       /\ PoolState = "Ready" => PoolState' = "Ready" /\ pool' = pool /\ sem' = sem
       /\ Cardinality({t \in Threads : pc'[t] \in {"init_pool", "init_sem"}}) <= 1]_vars

\* C15 (as claimed): a call whose __enter__ took a permit and then failed in
\* getconn has given the permit back when it ends; and whenever no thread is
\* inside __enter__ or __exit__, the available permits and the outstanding
\* leases add up to maxconn.
C15_FailedAcquireKeepsPermits ==
    /\ \A t \in Threads :
           (pc[t] = "idle" /\ cur[t].took = 1 /\ cur[t].gets = 0) => cur[t].gave = 1
    /\ (sem # None /\ \A t \in Threads : pc[t] \in {"idle", "init", "init_test", "enter",
                                                    "body", "commit"}) =>
           sem_value + Cardinality({t \in Threads : pc[t] \in {"body", "commit"}})
               = cfg.maxconn

\* the events of a sql_execute call that is accepted and returns
ReadOrder == <<"acquire", "getconn", "execute", "fetchall", "putconn", "release">>

\* C16: a sql_execute call that passes the keyword check never commits and
\* never changes the stored rows, and takes at most one permit; when it
\* returns, its events were acquire, getconn, execute, fetchall, putconn,
\* release in that order, once each, the rows it returns are the ones fetched
\* under the lease, and the permit is back: the acquire took one permit, the
\* release gave one, and the return is the step right after the release.
C16_ReadOrderAndSingleLease ==
    /\ [](\A t \in ExecThreads :
            (op[t].kind = "read" /\ ~any_keyword(op[t].sql)) =>
                /\ cur[t].commits = 0
                /\ \A i \in 1..Len(cur[t].trace) : cur[t].trace[i] # "commit"
                /\ cur[t].took <= 1 /\ cur[t].gave <= cur[t].took
                /\ (pc[t] = "idle" /\ outcome[t] = "returned") =>
                       /\ cur[t].trace = ReadOrder
                       /\ cur[t].took = 1 /\ cur[t].gave = 1
                       /\ cur[t].gets = 1 /\ cur[t].puts = 1
                       /\ cur[t].execs = 1
                       /\ ret[t] = store)
    /\ [][\A t \in ExecThreads :
              op[t].kind = "read" =>
                  /\ store' = store
                  /\ (pc[t] = "enter" /\ pc'[t] = "getconn") =>
                         sem_value' = sem_value - 1
                  /\ (pc[t] = "release" /\ pc'[t] = "idle") =>
                         /\ sem_value' = sem_value + 1
                         /\ cur'[t].trace = Append(cur[t].trace, "release")]_vars

\* a sql_execute call has returned stored rows to its caller with every
\* permit of the semaphore available again
C16_Witness ==
    \E t \in ExecThreads :
        /\ op[t].kind = "read" /\ pc[t] = "idle" /\ outcome[t] = "returned"
        /\ cur[t].trace = ReadOrder
        /\ ret[t] # {}
        /\ sem_value = cfg.maxconn

\* C17: whenever a thread is about to call getconn in __enter__, the pool
\* has fewer than maxconn connections checked out, and no call ever ends
\* with the pool's "exhausted" error.
C17_GetconnNeverExhausted ==
    /\ \A t \in Threads : pc[t] = "getconn" => Cardinality(pool_used) < cfg.maxconn
    /\ \A t \in Threads : outcome[t] # "PoolError"

\* a thread is about to call getconn while another holds a lease and the
\* pool is one connection short of maxconn
C17_Witness ==
    \E t, u \in Threads :
        /\ pc[t] = "getconn" /\ pc[u] = "body"
        /\ Cardinality(pool_used) = cfg.maxconn - 1
        /\ Len(pool_idle) = 0

\* the threads waiting in the semaphore's acquire
Blocked == {t \in Threads : pc[t] = "enter" /\ sem # None /\ ~acquire_ready(sem_value)}

\* every thread that reaches acquire gets past it
AcquireProgress == \A t \in Threads : (pc[t] = "enter") ~> (pc[t] # "enter")

\* C18 (as claimed): with one lease per thread and bodies that terminate, no
\* state is a deadlock: whenever a thread waits in acquire, some thread
\* holds a permit that its __exit__ will give back; and while maxconn leases
\* are outstanding no permit is left, so a later acquire waits.
C18_NoDeadlockAndStarvationAtCapacity ==
    /\ Blocked # {} => Holders # {}
    /\ (sem # None /\ Cardinality(Leases) = cfg.maxconn) => sem_value = 0

\* C19 (as claimed): a thread inside __enter__ or __exit__, or in the body
\* between them, does not hold the initialization lock and finds the pool
\* handle and the semaphore installed.
C19_EnterFindsPoolAndSemaphore ==
    \A t \in Threads :
        pc[t] \in {"enter", "getconn", "setconn", "enter_return", "body", "exit",
                  "putconn", "release"} =>
            /\ lock # t
            /\ pool # None
            /\ sem # None

\* C20 (as claimed): the connection __exit__ hands to putconn is the one
\* the same with block's __enter__ got from getconn and returned; and no
\* connection is in the hands of two with blocks at once.
C20_LeaseOwnsItsConnection ==
    /\ \A t \in Threads :
           pc[t] = "putconn" => (cur[t].arg = cur[t].got /\ cur[t].conn = cur[t].got)
    /\ \A t, u \in Threads :
           (t # u /\ pc[t] = "body" /\ pc[u] = "body") => cur[t].conn # cur[u].conn

====
